---- MODULE Spec2Model ----
(***************************************************************************)
(* Model of pkg/pomodoro/pomodoro.go: the Pomodoro timer state, the UI     *)
(* handlers SetNextInterval, Start and StopTimer, and the ticking          *)
(* goroutines spawned by Start.  Time is counted in milliseconds.  Every   *)
(* handler is split at the points where another goroutine can interleave:  *)
(* the call, the acquisition of Locker, and the critical section (which    *)
(* runs to its Unlock in one step, since nothing else can touch the state  *)
(* while Locker is held).                                                  *)
(***************************************************************************)
EXTENDS Integers, Sequences, FiniteSets, TLC

\* ---- bounds of the model ----
MaxLoops == 2
MaxTime == 1
MaxInterval == 1
MaxTimeLeft == 125000

\* ---- time units (time.Duration, counted in milliseconds) ----
Millisecond == 1
Second == 1000 * Millisecond
Minute == 60 * Second

Loops == 1..MaxLoops
UI == 0
Intervals == {i * Second : i \in 1..MaxInterval}
TimeLefts == 0..MaxTimeLeft

VARIABLES
    IsWork, NextWorkInterval, NextRestInterval, Deadline, TickerCancel,
    Description, MinutesText, SecondsText, Delimiter,
    Locker,      \* set of processes holding the mutex (empty or a singleton)
    now,         \* wall clock
    uiPc, uiInterval, uiIsWork, uiCtx,   \* the UI thread: position and locals
    nCtx,        \* number of contexts created by context.WithCancel
    ctxDone,     \* per context: the Done channel is closed
    pc,          \* per ticking goroutine: position
    tickerC,     \* per ticking goroutine: a tick is buffered in ticker.C
    last,        \* history: the step taken last
    hist,        \* whether the histories below are recorded in this behaviour
    uiDone,      \* history: the UI handler that returned last
    fired,       \* history: calls of endTimer since Deadline was last set
    byStart,     \* history: running goroutines whose context Start cancelled
    audioEnabled, \* the build flag audioEnabled
    alarms       \* number of goroutines running playAlarm

vars == <<IsWork, NextWorkInterval, NextRestInterval, Deadline, TickerCancel,
          Description, MinutesText, SecondsText, Delimiter, Locker, now,
          uiPc, uiInterval, uiIsWork, uiCtx, nCtx, ctxDone, pc, tickerC,
          last, hist, uiDone, fired, byStart, audioEnabled, alarms>>

timerVars == <<IsWork, NextWorkInterval, NextRestInterval, Deadline, TickerCancel>>
displayVars == <<Description, MinutesText, SecondsText, Delimiter>>
uiVars == <<uiPc, uiInterval, uiIsWork, uiCtx, uiDone, hist>>
loopVars == <<pc, tickerC>>
alarmVars == <<audioEnabled, alarms>>

\* a history variable takes its new value only where histories are recorded
Record(new, old) == IF hist THEN new ELSE old

\* ---- display formatting ----
\* fmt.Sprintf("%2d", n)
Sprintf2d(n) == IF n < 10 THEN " " \o ToString(n) ELSE ToString(n)

\* fmt.Sprintf("%02d", n)
Sprintf02d(n) == IF n < 10 THEN "0" \o ToString(n) ELSE ToString(n)

\* the minutes taken without the 200ms bias
setTimeLeftMinutesNoBias(timeLeft) == Sprintf2d(timeLeft \div Minute)

\* setTimeLeft: timeLeft += 200ms; minutes := uint(timeLeft / time.Minute)
\* (the model only passes non-negative durations, where Go's truncating
\* division and the uint conversion agree with \div)
setTimeLeftMinutes(timeLeft) == Sprintf2d((timeLeft + 200 * Millisecond) \div Minute)

\* setTimeLeft: seconds := uint((timeLeft % time.Minute) / time.Second)
setTimeLeftSeconds(timeLeft) ==
    Sprintf02d(((timeLeft + 200 * Millisecond) % Minute) \div Second)

\* the 8-bit gray value taken for the 16-bit channel
GrayRGBA8bit(y) == y

\* color.Gray{Y}.RGBA(): r = Y | Y<<8
GrayRGBA(y) == y * 257

\* Tick: the blink of the delimiter
TickDelimiter(y) == IF GrayRGBA(y) > 10000 THEN 22 ELSE 128

\* the label of the work phase in either phase
setIsWorkDescriptionFocus(isWork) == "FOCUS"

\* the labels exchanged
setIsWorkDescriptionSwapped(isWork) == IF isWork THEN "REST" ELSE "FOCUS"

\* setIsWork: the phase label
setIsWorkDescription(isWork) == IF isWork THEN "FOCUS" ELSE "REST"

\* setIsWork / Start: the configured interval of a phase
IntervalOf(isWork) == IF isWork THEN NextWorkInterval ELSE NextRestInterval

\* the work interval overwritten in either phase
SetNextIntervalWorkAlways(d) == d

\* SetNextInterval: the interval that is overwritten is chosen by IsWork
SetNextIntervalWork(d) == IF IsWork THEN d ELSE NextWorkInterval

SetNextIntervalRest(d) == IF IsWork THEN NextRestInterval ELSE d

\* the deadline left as it was
SetNextIntervalDeadlineKept(d) == Deadline

\* SetNextInterval: p.Deadline = time.Now().Add(nextInterval)
SetNextIntervalDeadline(d) == now + d

\* the deadline taken from the interval of the other phase
StartDeadlineOther(isWork) == now + IntervalOf(~isWork)

\* Start: p.Deadline = time.Now().Add(interval of the phase just set)
StartDeadline(isWork) == now + IntervalOf(isWork)

\* the remaining time measured one second too long
TickTimeLeftLate == Deadline - now + Second

\* Tick: timeLeft := time.Until(p.Deadline)
TickTimeLeft == Deadline - now

\* the handle dropped without being called
CancelNever(done, h) == done

\* p.TickerCancel() behind its nil check: closes the Done channel of the
\* context the handle belongs to
Cancel(done, h) == IF h = 0 THEN done ELSE [done EXCEPT ![h] = TRUE]

\* endTimer: if audioEnabled { go func() { p.playAlarm() ... }() }
endTimerAlarms(n) == IF audioEnabled THEN n + 1 ELSE n

\* what playAlarm returns: nil or the error of one of its four failing calls
AlarmOutcomes == {"nil", "decoder", "decode", "oto context", "close"}

\* goroutines that were spawned and have not returned
Alive == {l \in Loops : pc[l] \notin {"none", "done"}}

\* ---- the state after New() ----
\* timeLeft is the argument of a pending call of SetTimeLeft (0 without one);
\* used is the number of countdowns that were started with Start(true) and,
\* after their first Tick, stopped with StopTimer before any time passed,
\* and whose goroutine has returned: such a countdown leaves the state of
\* New() but for its spent context
InitWith(timeLeft, used) ==
    /\ IsWork = TRUE
    /\ NextRestInterval = 15 * Minute
    /\ NextWorkInterval = 60 * Minute
    /\ now = 0
    /\ Deadline = 60 * Minute
    /\ TickerCancel = 0
    /\ Description = ""
    /\ MinutesText = setTimeLeftMinutes(60 * Minute)
    /\ SecondsText = setTimeLeftSeconds(60 * Minute)
    /\ Delimiter = 128
    /\ Locker = {}
    /\ uiPc = "idle" /\ uiInterval = timeLeft /\ uiIsWork = FALSE /\ uiCtx = 0
    /\ nCtx = used
    /\ ctxDone = [l \in Loops |-> l <= used]
    /\ pc = [l \in Loops |-> IF l <= used THEN "done" ELSE "none"]
    /\ tickerC = [l \in Loops |-> FALSE]
    /\ last = IF used = 0 THEN "New" ELSE "-"
    /\ uiDone = "New"
    /\ fired = 0
    /\ byStart = {}
    /\ alarms = 0

InitState == InitWith(0, 0)

\* the state after New(), Start(true), the first Tick, StopTimer and the
\* return of the goroutine, all within the same second
InitStopped == InitWith(0, 1) /\ hist = FALSE

\* the same after every timer but the last one has been started and stopped
InitLastTimer == InitWith(0, MaxLoops - 1) /\ hist = FALSE /\ audioEnabled = FALSE

\* the same with two timers left to start
InitTwoTimers == InitWith(0, MaxLoops - 2) /\ hist = FALSE /\ audioEnabled = FALSE

Init == InitState /\ hist = FALSE /\ audioEnabled = FALSE

InitH == InitState /\ hist = TRUE /\ audioEnabled = FALSE

\* ---- the UI thread ----
\* a button is tapped: the handler is entered and p.Locker.Lock() returns
\* (a handler that finds the mutex held waits, which is this step not being
\* enabled yet)
LockSetNextInterval(d) ==
    /\ uiPc = "idle" /\ Locker = {}
    /\ Locker' = {UI}
    /\ uiPc' = "SetNextInterval_cs" /\ uiInterval' = d
    /\ last' = "-"
    /\ UNCHANGED <<timerVars, displayVars, now, uiIsWork, uiCtx, uiDone,
                   nCtx, ctxDone, loopVars, fired, byStart, hist, alarmVars>>

LockStart(isWork) ==
    /\ uiPc = "idle" /\ Locker = {}
    /\ nCtx < MaxLoops
    /\ Locker' = {UI}
    /\ uiPc' = "Start_cs" /\ uiIsWork' = isWork
    /\ last' = "-"
    /\ UNCHANGED <<timerVars, displayVars, now, uiInterval, uiCtx, uiDone,
                   nCtx, ctxDone, loopVars, fired, byStart, hist, alarmVars>>

LockStopTimer ==
    /\ uiPc = "idle" /\ Locker = {}
    /\ Locker' = {UI}
    /\ uiPc' = "StopTimer_cs"
    /\ last' = "-"
    /\ UNCHANGED <<timerVars, displayVars, now, uiInterval, uiIsWork, uiCtx,
                   uiDone, nCtx, ctxDone, loopVars, fired, byStart, hist, alarmVars>>

\* SetNextInterval from after Lock to the deferred Unlock
SetNextInterval ==
    /\ uiPc = "SetNextInterval_cs" /\ Locker = {UI}
    /\ NextWorkInterval' = SetNextIntervalWork(uiInterval)
    /\ NextRestInterval' = SetNextIntervalRest(uiInterval)
    /\ Deadline' = SetNextIntervalDeadline(uiInterval)
    /\ MinutesText' = setTimeLeftMinutes(uiInterval)
    /\ SecondsText' = setTimeLeftSeconds(uiInterval)
    /\ Locker' = {}
    /\ uiPc' = "idle" /\ uiInterval' = 0 /\ uiDone' = Record("SetNextInterval", uiDone)
    /\ fired' = Record(0, fired)
    /\ last' = "SetNextInterval"
    /\ UNCHANGED <<IsWork, TickerCancel, Description, Delimiter, now, uiIsWork, uiCtx,
                   nCtx, ctxDone, loopVars, byStart, hist, alarmVars>>

\* Start from after Lock to Unlock
Start ==
    /\ uiPc = "Start_cs" /\ Locker = {UI}
    /\ Description' = setIsWorkDescription(uiIsWork)
    /\ MinutesText' = setTimeLeftMinutes(IntervalOf(uiIsWork))
    /\ SecondsText' = setTimeLeftSeconds(IntervalOf(uiIsWork))
    /\ IsWork' = uiIsWork
    /\ nCtx' = nCtx + 1
    /\ ctxDone' = Cancel(ctxDone, TickerCancel)
    /\ byStart' = Record(IF TickerCancel \in Alive THEN byStart \cup {TickerCancel} ELSE byStart,
                       byStart)
    /\ TickerCancel' = nCtx + 1
    /\ Deadline' = StartDeadline(uiIsWork)
    /\ Locker' = {}
    /\ uiPc' = "Start_go" /\ uiCtx' = nCtx + 1 /\ uiIsWork' = FALSE
    /\ fired' = Record(0, fired)
    /\ last' = "Start"
    /\ UNCHANGED <<NextWorkInterval, NextRestInterval, Delimiter, now, uiInterval,
                   uiDone, loopVars, hist, alarmVars>>

\* Start: time.NewTicker(time.Second) and the go statement; Start returns
StartGo ==
    /\ uiPc = "Start_go"
    /\ pc' = [pc EXCEPT ![uiCtx] = "first"]
    /\ tickerC' = [tickerC EXCEPT ![uiCtx] = FALSE]
    /\ uiPc' = "idle" /\ uiCtx' = 0 /\ uiDone' = Record("Start", uiDone)
    /\ last' = "StartGo"
    /\ UNCHANGED <<timerVars, displayVars, Locker, now, uiInterval, uiIsWork,
                   nCtx, ctxDone, fired, byStart, hist, alarmVars>>

\* StopTimer that cancels the handle but leaves it, and the label, in place
StopTimerKeepsHandle ==
    /\ uiPc = "StopTimer_cs" /\ Locker = {UI}
    /\ ctxDone' = Cancel(ctxDone, TickerCancel)
    /\ Delimiter' = 128
    /\ Locker' = {}
    /\ uiPc' = "idle" /\ uiDone' = Record("StopTimer", uiDone)
    /\ last' = "StopTimer"
    /\ UNCHANGED <<timerVars, Description, MinutesText, SecondsText, now, uiInterval,
                   uiIsWork, uiCtx, nCtx, loopVars, fired, byStart, hist, alarmVars>>

\* StopTimer that also resets the configured intervals to their defaults
StopTimerResets ==
    /\ uiPc = "StopTimer_cs" /\ Locker = {UI}
    /\ Description' = ""
    /\ ctxDone' = Cancel(ctxDone, TickerCancel)
    /\ TickerCancel' = 0
    /\ Delimiter' = 128
    /\ NextWorkInterval' = 60 * Minute /\ NextRestInterval' = 15 * Minute
    /\ Locker' = {}
    /\ uiPc' = "idle" /\ uiDone' = Record("StopTimer", uiDone)
    /\ last' = "StopTimer"
    /\ UNCHANGED <<IsWork, Deadline, MinutesText, SecondsText, now, uiInterval, uiIsWork,
                   uiCtx, nCtx, loopVars, fired, byStart, hist, alarmVars>>

\* StopTimer from after Lock to the deferred Unlock
StopTimer ==
    /\ uiPc = "StopTimer_cs" /\ Locker = {UI}
    /\ Description' = ""
    /\ ctxDone' = Cancel(ctxDone, TickerCancel)
    /\ TickerCancel' = 0
    /\ Delimiter' = 128
    /\ Locker' = {}
    /\ uiPc' = "idle" /\ uiDone' = Record("StopTimer", uiDone)
    /\ last' = "StopTimer"
    /\ UNCHANGED <<IsWork, NextWorkInterval, NextRestInterval, Deadline, MinutesText,
                   SecondsText, now, uiInterval, uiIsWork, uiCtx, nCtx, loopVars, fired, byStart, hist, alarmVars>>

\* SetTimeLeft (exported, not wired to a button): Lock
LockSetTimeLeft(d) ==
    /\ uiPc = "idle" /\ Locker = {}
    /\ Locker' = {UI}
    /\ uiPc' = "SetTimeLeft_cs" /\ uiInterval' = d
    /\ last' = "-"
    /\ UNCHANGED <<timerVars, displayVars, now, uiIsWork, uiCtx, uiDone,
                   nCtx, ctxDone, loopVars, fired, byStart, hist, alarmVars>>

\* SetTimeLeft from after Lock to the deferred Unlock (the argument is kept
\* where histories are recorded)
SetTimeLeft ==
    /\ uiPc = "SetTimeLeft_cs" /\ Locker = {UI}
    /\ MinutesText' = setTimeLeftMinutes(uiInterval)
    /\ SecondsText' = setTimeLeftSeconds(uiInterval)
    /\ Locker' = {}
    /\ uiPc' = "idle" /\ uiInterval' = Record(uiInterval, 0)
    /\ uiDone' = Record("SetTimeLeft", uiDone)
    /\ last' = "SetTimeLeft"
    /\ UNCHANGED <<timerVars, Description, Delimiter, now, uiIsWork, uiCtx,
                   nCtx, ctxDone, loopVars, fired, byStart, hist, alarmVars>>

\* EndTimer (exported, not wired to a button): Lock
LockEndTimer ==
    /\ uiPc = "idle" /\ Locker = {}
    /\ Locker' = {UI}
    /\ uiPc' = "EndTimer_cs"
    /\ last' = "-"
    /\ UNCHANGED <<timerVars, displayVars, now, uiInterval, uiIsWork, uiCtx, uiDone,
                   nCtx, ctxDone, loopVars, fired, byStart, hist, alarmVars>>

\* EndTimer from after Lock to the deferred Unlock: endTimer
EndTimer ==
    /\ uiPc = "EndTimer_cs" /\ Locker = {UI}
    /\ ctxDone' = Cancel(ctxDone, TickerCancel)
    /\ TickerCancel' = 0
    /\ alarms' = endTimerAlarms(alarms)
    /\ Description' = setIsWorkDescription(~IsWork)
    /\ MinutesText' = setTimeLeftMinutes(IntervalOf(~IsWork))
    /\ SecondsText' = setTimeLeftSeconds(IntervalOf(~IsWork))
    /\ IsWork' = ~IsWork
    /\ Locker' = {}
    /\ uiPc' = "idle" /\ uiDone' = Record("EndTimer", uiDone)
    /\ fired' = Record(fired + 1, fired)
    /\ last' = "EndTimer"
    /\ UNCHANGED <<NextWorkInterval, NextRestInterval, Deadline, Delimiter, now,
                   uiInterval, uiIsWork, uiCtx, nCtx, loopVars, byStart, hist, audioEnabled>>

\* Tick entering its critical section without waiting for the mutex
TickLockBarging(l) ==
    /\ pc[l] \in {"first", "tick"}
    /\ Locker' = Locker \cup {l}
    /\ pc' = [pc EXCEPT ![l] = pc[l] \o "_cs"]
    /\ last' = "-"
    /\ UNCHANGED <<timerVars, displayVars, now, uiVars, nCtx, ctxDone, tickerC, fired,
                   byStart, alarmVars>>

\* ---- a ticking goroutine ----
\* p.Tick(): p.Locker.Lock()
TickLock(l) ==
    /\ pc[l] \in {"first", "tick"}
    /\ Locker = {}
    /\ Locker' = {l}
    /\ pc' = [pc EXCEPT ![l] = pc[l] \o "_cs"]
    /\ last' = "-"
    /\ UNCHANGED <<timerVars, displayVars, now, uiVars, nCtx, ctxDone, tickerC, fired, byStart, alarmVars>>

\* Tick from after Lock to the deferred Unlock, timeLeft > 0
TickShow(l) ==
    /\ pc[l] \in {"first_cs", "tick_cs"} /\ Locker = {l}
    /\ TickTimeLeft > 0
    /\ Delimiter' = TickDelimiter(Delimiter)
    /\ MinutesText' = setTimeLeftMinutes(TickTimeLeft)
    /\ SecondsText' = setTimeLeftSeconds(TickTimeLeft)
    /\ Locker' = {}
    /\ pc' = [pc EXCEPT ![l] = "select"]
    /\ last' = IF pc[l] = "first_cs" THEN "TickShowFirst" ELSE "TickShow"
    /\ UNCHANGED <<timerVars, Description, now, uiVars, nCtx, ctxDone, tickerC, fired, byStart, alarmVars>>

\* endTimer locking the mutex its caller holds: the goroutine blocks for good
TickEndRelocks(l) ==
    /\ pc[l] \in {"first_cs", "tick_cs"} /\ Locker = {l}
    /\ TickTimeLeft <= 0
    /\ UNCHANGED vars

\* Tick from after Lock to the deferred Unlock, timeLeft <= 0: endTimer
TickEnd(l) ==
    /\ pc[l] \in {"first_cs", "tick_cs"} /\ Locker = {l}
    /\ TickTimeLeft <= 0
    /\ Delimiter' = TickDelimiter(Delimiter)
    /\ ctxDone' = Cancel(ctxDone, TickerCancel)
    /\ TickerCancel' = 0
    /\ Description' = setIsWorkDescription(~IsWork)
    /\ MinutesText' = setTimeLeftMinutes(IntervalOf(~IsWork))
    /\ SecondsText' = setTimeLeftSeconds(IntervalOf(~IsWork))
    /\ IsWork' = ~IsWork
    /\ Locker' = {}
    /\ pc' = [pc EXCEPT ![l] = "select"]
    /\ alarms' = endTimerAlarms(alarms)
    /\ fired' = Record(fired + 1, fired)
    /\ last' = "TickEnd"
    /\ UNCHANGED <<NextWorkInterval, NextRestInterval, Deadline, now, uiVars, nCtx, tickerC,
                   byStart, audioEnabled>>

\* the Done case leaves the select but not the loop
SelectDoneBreaks(l) ==
    /\ pc[l] = "select"
    /\ ctxDone[l]
    /\ pc' = [pc EXCEPT ![l] = "tick"]
    /\ last' = "-"
    /\ UNCHANGED <<timerVars, displayVars, Locker, now, uiVars, nCtx, ctxDone, tickerC,
                   fired, byStart, alarmVars>>

\* select: case <-ctx.Done(): return (the deferred ticker.Stop())
SelectDone(l) ==
    /\ pc[l] = "select"
    /\ ctxDone[l]
    /\ pc' = [pc EXCEPT ![l] = "done"]
    /\ tickerC' = [tickerC EXCEPT ![l] = FALSE]
    /\ byStart' = Record(byStart \ {l}, byStart)
    /\ last' = "-"
    /\ UNCHANGED <<timerVars, displayVars, Locker, now, uiVars, nCtx, ctxDone, fired, alarmVars>>

\* select: case <-ticker.C: (when both channels are ready Go picks either)
SelectTick(l) ==
    /\ pc[l] = "select"
    /\ tickerC[l]
    /\ pc' = [pc EXCEPT ![l] = "tick"]
    /\ tickerC' = [tickerC EXCEPT ![l] = FALSE]
    /\ last' = "-"
    /\ UNCHANGED <<timerVars, displayVars, Locker, now, uiVars, nCtx, ctxDone, fired, byStart, alarmVars>>

\* ---- an alarm goroutine ----
\* a playback that fails is started again
AlarmDoneRetry(err) ==
    /\ alarms > 0
    /\ alarms' = IF err = "nil" THEN alarms - 1 ELSE alarms
    /\ last' = "playAlarm"
    /\ UNCHANGED <<timerVars, displayVars, Locker, now, uiVars, nCtx, ctxDone, loopVars,
                   fired, byStart, audioEnabled>>

\* playAlarm returns err, which is logged when it is not nil; the goroutine ends
AlarmDone(err) ==
    /\ alarms > 0
    /\ alarms' = alarms - 1
    /\ last' = "playAlarm"
    /\ UNCHANGED <<timerVars, displayVars, Locker, now, uiVars, nCtx, ctxDone, loopVars,
                   fired, byStart, audioEnabled>>

\* ---- the environment ----
\* a second passes: every running ticker sends on its channel (capacity 1,
\* a tick that finds the channel full is dropped)
AdvanceTime ==
    /\ now < MaxTime * Second
    /\ now' = now + Second
    /\ tickerC' = [l \in Loops |-> tickerC[l] \/ l \in Alive]
    /\ last' = "-"
    /\ UNCHANGED <<timerVars, displayVars, Locker, uiVars, nCtx, ctxDone, pc, fired, byStart, alarmVars>>

Next ==
    \/ \E d \in Intervals : LockSetNextInterval(d)
    \/ \E w \in BOOLEAN : LockStart(w)
    \/ LockStopTimer
    \/ SetNextInterval
    \/ Start
    \/ StartGo
    \/ StopTimer
    \/ \E l \in Loops : TickLock(l)
    \/ \E l \in Loops : TickShow(l)
    \/ \E l \in Loops : TickEnd(l)
    \/ \E l \in Loops : SelectDone(l)
    \/ \E l \in Loops : SelectTick(l)
    \/ AdvanceTime

Spec == Init /\ [][Next]_vars

SpecH == InitH /\ [][Next]_vars

\* scheduling: a handler or a Tick that holds the mutex runs to its Unlock;
\* a goroutine blocked in Lock gets the mutex (sync.Mutex hands it to a
\* starving waiter); a select whose Done channel is closed and stays the
\* only ready case returns, and a tick in ticker.C is received.  Nothing
\* obliges the user to tap a button or a second to pass.
Fairness ==
    /\ WF_vars(SetNextInterval) /\ WF_vars(Start) /\ WF_vars(StartGo)
    /\ WF_vars(StopTimer) /\ WF_vars(SetTimeLeft) /\ WF_vars(EndTimer)
    /\ \A l \in Loops :
          /\ SF_vars(TickLock(l))
          /\ WF_vars(TickShow(l)) /\ WF_vars(TickEnd(l))
          /\ WF_vars(SelectDone(l)) /\ WF_vars(SelectTick(l))

SpecFair == InitTwoTimers /\ [][Next]_vars /\ Fairness

\* the handlers of the buttons and the exported methods no button calls
NextAPI ==
    \/ Next
    \/ \E d \in Intervals : LockSetTimeLeft(d)
    \/ SetTimeLeft
    \/ LockEndTimer
    \/ EndTimer

InitAPI == InitStopped /\ audioEnabled = FALSE

SpecAPI == InitAPI /\ [][NextAPI]_vars

SpecFairAPI == InitLastTimer /\ [][NextAPI]_vars /\ Fairness

\* the program built with audioEnabled = false (as in the source) or true
InitAlarm == InitStopped /\ audioEnabled \in BOOLEAN

NextAlarm ==
    \/ Next
    \/ \E err \in AlarmOutcomes : AlarmDone(err)

SpecAlarm == InitAlarm /\ [][NextAlarm]_vars

\* New() followed by one call of SetTimeLeft, for every duration of TimeLefts
InitFmt == hist = TRUE /\ audioEnabled = FALSE /\ \E r \in TimeLefts : InitWith(r, 0)

NextFmt ==
    \/ uiDone = "New" /\ LockSetTimeLeft(uiInterval)
    \/ SetTimeLeft

SpecFmt == InitFmt /\ [][NextFmt]_vars

TypeOK ==
    /\ IsWork \in BOOLEAN
    /\ TickerCancel \in 0..MaxLoops
    /\ Delimiter \in {22, 128}
    /\ Cardinality(Locker) <= 1

\* ---- steps named by the properties ----
\* goroutine l runs the body of a Tick (from after Lock to Unlock)
TickStep(l) == pc[l] \in {"first_cs", "tick_cs"} /\ pc'[l] = "select"

\* the UI thread runs the critical section of SetNextInterval / of Start
SetNextIntervalStep == uiPc = "SetNextInterval_cs" /\ uiPc' = "idle"

StartStep == uiPc = "Start_cs" /\ uiPc' = "Start_go"

\* Start returns, having spawned its goroutine
StartGoStep == uiPc = "Start_go" /\ uiPc' = "idle"

\* StopTimer has returned and no Start or SetNextInterval has been issued since
Stopped ==
    /\ uiDone = "StopTimer"
    /\ uiPc \notin {"SetNextInterval_cs", "Start_cs", "Start_go"}

\* C1: at most one ticking loop is alive at any time (the loop of an earlier
\* Start has exited by the time the loop of the next Start begins).
C1_AtMostOneLoopAlive == Cardinality(Alive) <= 1

\* C2: endTimer is executed at most once for every deadline installed by
\* Start or SetNextInterval.
C2_EndTimerOncePerDeadline == fired <= 1

\* C3: right after a Tick that ran phase-end handling, Deadline is the time
\* of the Tick plus the configured interval of the phase just entered.
C3_NewDeadlineAtPhaseEnd == last = "TickEnd" => Deadline = now + IntervalOf(IsWork)

\* C4: a Tick that observes now >= Deadline negates IsWork, sets the label
\* to "FOCUS" for work and "REST" for rest, and displays the formatted full
\* interval of the new phase.
C4_PhaseFlip ==
    [][\A l \in Loops : (TickStep(l) /\ now >= Deadline) =>
        /\ IsWork' = ~IsWork
        /\ Description' = (IF IsWork' THEN "FOCUS" ELSE "REST")
        /\ MinutesText' = setTimeLeftMinutes(IF IsWork' THEN NextWorkInterval
                                                          ELSE NextRestInterval)
        /\ SecondsText' = setTimeLeftSeconds(IF IsWork' THEN NextWorkInterval
                                                          ELSE NextRestInterval)]_vars

C4_Witness ==
    /\ last = "TickEnd" /\ ~IsWork /\ Description = "REST"
    /\ MinutesText = "15" /\ SecondsText = "00"

\* C5: from the return of StopTimer until the next Start or SetNextInterval
\* the label stays empty, the delimiter stays at its idle weight and the
\* minutes and seconds texts do not change.
C5_NoUpdateAfterStop ==
    [][(Stopped /\ Stopped') =>
        /\ Description' = "" /\ Delimiter' = 128
        /\ MinutesText' = MinutesText /\ SecondsText' = SecondsText]_vars

\* C6: a loop whose context Start has cancelled executes no further Tick.
C6_NoTickAfterStartCancel ==
    [][\A l \in Loops : l \in byStart => ~TickStep(l)]_vars

\* no handler of the UI thread and no Tick is between its Lock and its
\* return (Start returns after its go statement)
Quiescent == Locker = {} /\ uiPc = "idle"

\* C7 (as claimed): outside critical sections TickerCancel is non-nil iff a
\* ticking loop is running (spawned and not yet exited).
C7_HandleIffLoopRunning == Quiescent => (TickerCancel # 0 <=> Alive # {})

\* C7 (amended): outside critical sections TickerCancel is non-nil iff some
\* ticking loop has a context that has not been cancelled; that loop is
\* running, it is the only such loop, and TickerCancel is its handle.
C7_HandleIffLiveContext ==
    Quiescent =>
        /\ \A l \in 1..nCtx : ~ctxDone[l] <=> TickerCancel = l
        /\ TickerCancel # 0 => TickerCancel \in Alive

C7_Witness ==
    /\ Quiescent /\ TickerCancel = 0
    /\ \E l \in Alive : ctxDone[l]

C9_SetNextIntervalFrame ==
    [][SetNextIntervalStep =>
        /\ IsWork => (NextWorkInterval' = uiInterval /\ NextRestInterval' = NextRestInterval)
        /\ ~IsWork => (NextRestInterval' = uiInterval /\ NextWorkInterval' = NextWorkInterval)
        /\ IsWork' = IsWork /\ TickerCancel' = TickerCancel]_vars

C9_Witness ==
    /\ last = "SetNextInterval" /\ ~IsWork
    /\ NextRestInterval = Second /\ NextWorkInterval = 60 * Minute

\* C10: SetNextInterval(d) sets Deadline to now + d and displays d without
\* cancelling or replacing the ticking loop, and a Tick runs phase-end
\* handling exactly when now has reached the deadline in force.
C10_LiveInterval ==
    [][/\ SetNextIntervalStep =>
            /\ Deadline' = now + uiInterval
            /\ MinutesText' = setTimeLeftMinutes(uiInterval)
            /\ SecondsText' = setTimeLeftSeconds(uiInterval)
            /\ TickerCancel' = TickerCancel /\ ctxDone' = ctxDone /\ pc' = pc
       /\ \A l \in Loops : TickStep(l) =>
            /\ (IsWork' # IsWork) <=> (now >= Deadline)
            /\ Deadline' = Deadline]_vars

C10_Witness ==
    /\ last = "SetNextInterval" /\ now > 0
    /\ TickerCancel \in Alive /\ ~ctxDone[TickerCancel]
    /\ Deadline = now + Second /\ MinutesText = " 0" /\ SecondsText = "01"
\* the UI thread runs the critical section of StopTimer
StopTimerStep == uiPc = "StopTimer_cs" /\ uiPc' = "idle"

\* C11: StopTimer returns with the label empty, the delimiter at gray 128
\* and the handle absent, having cancelled the context of the handle that
\* was installed.
C11_StopTimer ==
    [][StopTimerStep =>
        /\ Description' = "" /\ Delimiter' = 128 /\ TickerCancel' = 0
        /\ \A l \in Loops : ctxDone'[l] <=> (ctxDone[l] \/ l = TickerCancel)]_vars

C11_Witness ==
    /\ last = "StopTimer" /\ ~IsWork /\ Description = "" /\ Delimiter = 128
    /\ TickerCancel = 0 /\ \E l \in Alive : ctxDone[l] /\ pc[l] = "select"

\* C12: only SetNextInterval changes NextWorkInterval and NextRestInterval;
\* StopTimer also leaves IsWork and Deadline unchanged.
C12_IntervalsFrame ==
    [][/\ ~SetNextIntervalStep =>
            /\ NextWorkInterval' = NextWorkInterval
            /\ NextRestInterval' = NextRestInterval
       /\ StopTimerStep => (IsWork' = IsWork /\ Deadline' = Deadline)]_vars

C12_Witness ==
    /\ last = "StopTimer" /\ NextWorkInterval = Second /\ NextRestInterval = Second
    /\ ~IsWork /\ Deadline <= now

\* C17: a Tick that computes Deadline - now > 0 displays exactly that
\* duration, formatted, and leaves IsWork, both intervals, Deadline, the
\* handle and the label unchanged; a Tick that computes a non-positive
\* duration displays the interval of the phase it enters instead.
C17_TickShowsRemaining ==
    [][\A l \in Loops : TickStep(l) =>
        /\ Deadline - now > 0 =>
              /\ MinutesText' = Sprintf2d((Deadline - now + 200) \div Minute)
              /\ SecondsText' = Sprintf02d(((Deadline - now + 200) % Minute) \div Second)
              /\ UNCHANGED <<IsWork, NextWorkInterval, NextRestInterval, Deadline,
                             TickerCancel, Description>>
        /\ Deadline - now <= 0 =>
              /\ IntervalOf(~IsWork) > 0
              /\ MinutesText' = Sprintf2d((IntervalOf(~IsWork) + 200) \div Minute)
              /\ SecondsText' = Sprintf02d(((IntervalOf(~IsWork) + 200) % Minute) \div Second)]_vars

C17_Witness ==
    /\ last = "TickShow" /\ Deadline - now = Second
    /\ MinutesText = " 0" /\ SecondsText = "01"

\* C18: every Tick flips the delimiter between gray 128 and gray 22
\* according to its current value, StopTimer resets it to gray 128, and
\* nothing else changes it.
C18_Blink ==
    [][/\ \A l \in Loops : TickStep(l) => Delimiter' = (IF Delimiter = 128 THEN 22 ELSE 128)
       /\ StopTimerStep => Delimiter' = 128
       /\ (~StopTimerStep /\ \A l \in Loops : ~TickStep(l)) => Delimiter' = Delimiter]_vars

C18_Witness == last \in {"TickShow", "TickEnd"} /\ Delimiter = 128

\* C20: outside critical sections the label is "", "FOCUS" or "REST";
\* "FOCUS" implies IsWork and "REST" implies ~IsWork.
C20_LabelMatchesPhase ==
    Locker = {} =>
        /\ Description \in {"", "FOCUS", "REST"}
        /\ Description = "FOCUS" => IsWork
        /\ Description = "REST" => ~IsWork

C20_Witness == Locker = {} /\ last = "TickEnd" /\ Description = "FOCUS" /\ IsWork
\* the UI thread runs the critical section of SetTimeLeft
SetTimeLeftStep == uiPc = "SetTimeLeft_cs" /\ uiPc' = "idle"

\* C13: for a remaining duration r >= 0 the displayed minutes m and seconds
\* sec are the whole minutes of r + 200ms and the whole seconds of the rest,
\* with sec in 0..59; r = 59.9s displays " 1" and "00", r = 0 displays " 0"
\* and "00".
C13_Format ==
    [][SetTimeLeftStep =>
        LET total == (uiInterval + 200) \div Second
        IN  /\ MinutesText' = Sprintf2d(total \div 60)
            /\ SecondsText' = Sprintf02d(total % 60)
            /\ (total \div 60) * Minute + (total % 60) * Second <= uiInterval + 200
            /\ uiInterval + 200 < (total \div 60) * Minute + (total % 60) * Second + Second
            /\ uiInterval = 59900 => (MinutesText' = " 1" /\ SecondsText' = "00")
            /\ uiInterval = 0 => (MinutesText' = " 0" /\ SecondsText' = "00")
            /\ uiInterval = 59799 => (MinutesText' = " 0" /\ SecondsText' = "59")]_vars

C13_Witness ==
    /\ last = "SetTimeLeft" /\ uiInterval = 59900
    /\ MinutesText = " 1" /\ SecondsText = "00"
\* C14: phase-end handling starts one playback when audio is enabled and
\* none otherwise, and changes the timer in the same way in both cases; a
\* playback that ends, with nil or with any error, changes nothing of the
\* timer and is not started again.
C14_AlarmIndependent ==
    [][/\ \A l \in Loops : (TickStep(l) /\ now >= Deadline) =>
            /\ alarms' = alarms + (IF audioEnabled THEN 1 ELSE 0)
            /\ IsWork' = ~IsWork
            /\ TickerCancel' = 0
            /\ UNCHANGED <<NextWorkInterval, NextRestInterval, Deadline>>
            /\ Description' = (IF IsWork THEN "REST" ELSE "FOCUS")
            /\ MinutesText' = setTimeLeftMinutes(IF IsWork THEN NextRestInterval
                                                         ELSE NextWorkInterval)
            /\ SecondsText' = setTimeLeftSeconds(IF IsWork THEN NextRestInterval
                                                         ELSE NextWorkInterval)
       /\ last' = "playAlarm" =>
            /\ alarms' = alarms - 1
            /\ UNCHANGED <<timerVars, displayVars, ctxDone, pc, tickerC, Locker>>
       /\ (last' # "playAlarm" /\ \A l \in Loops : ~(TickStep(l) /\ now >= Deadline)) =>
            alarms' = alarms
       /\ audioEnabled' = audioEnabled]_vars

C14_Witness ==
    /\ audioEnabled /\ last = "playAlarm" /\ alarms = 0
    /\ ~IsWork /\ Description = "REST" /\ TickerCancel = 0
\* positions inside a critical section
UIInCS ==
    uiPc \in {"SetNextInterval_cs", "SetTimeLeft_cs", "Start_cs", "StopTimer_cs", "EndTimer_cs"}

LoopInCS(l) == pc[l] \in {"first_cs", "tick_cs"}

\* C16: a process is inside a critical section exactly while it holds
\* Locker, at most one process holds it, and every step that changes
\* IsWork, an interval, Deadline or TickerCancel is the critical section of
\* the one process holding Locker, which releases it with that step.
C16_LockDiscipline ==
    [][/\ Cardinality(Locker') <= 1
       /\ (UI \in Locker') <=> UIInCS'
       /\ \A l \in Loops : (l \in Locker') <=> LoopInCS(l)'
       /\ timerVars' # timerVars =>
            /\ Locker' = {}
            /\ \/ Locker = {UI} /\ UIInCS /\ ~UIInCS'
               \/ \E l \in Loops : Locker = {l} /\ TickStep(l)]_vars

C16_Witness ==
    /\ Locker = {UI} /\ uiPc = "EndTimer_cs"
    /\ \E l \in Loops : pc[l] = "tick" /\ ~ctxDone[l] /\ TickerCancel = l
\* C15: a Tick that runs phase-end handling leaves the handle absent and
\* the context of its own loop cancelled; while the user does nothing the
\* handle stays absent and no loop is spawned; and unless the user acts,
\* every loop has eventually returned.
C15_NoRearm ==
    /\ [][/\ \A l \in Loops : (TickStep(l) /\ now >= Deadline) =>
                (TickerCancel' = 0 /\ ctxDone'[l])
          /\ (TickerCancel = 0 /\ uiPc = "idle" /\ uiPc' = "idle") =>
                /\ TickerCancel' = 0
                /\ \A l \in Loops : pc[l] \in {"none", "done"} => pc'[l] = pc[l]]_vars
    /\ (last = "TickEnd" /\ uiPc = "idle")
          ~> ((Alive = {} /\ TickerCancel = 0) \/ uiPc # "idle")

C15_Witness ==
    /\ uiPc = "idle" /\ TickerCancel = 0 /\ Alive = {}
    /\ \E l \in Loops : pc[l] = "done"
    /\ Description = "REST" /\ ~IsWork /\ Deadline <= now

\* C19: a process that has left its handler or its Tick does not hold
\* Locker; a goroutine waiting in Tick's Lock stays there until it has the
\* mutex, and a running loop whose context is cancelled stays so until it
\* returns; Locker is free again and again, so no holder keeps it; no
\* goroutine waits in Tick's Lock forever; no loop whose context is
\* cancelled runs forever.
C19_NoDeadlock ==
    /\ [][/\ uiPc' = "idle" => UI \notin Locker'
          /\ \A l \in Loops :
                /\ ~LoopInCS(l)' => l \notin Locker'
                /\ pc[l] \in {"first", "tick"} =>
                      (pc'[l] = pc[l] \/ (LoopInCS(l)' /\ Locker' = {l}))
                /\ (l \in Alive /\ ctxDone[l]) =>
                      (ctxDone'[l] /\ (l \in Alive' \/ pc'[l] = "done"))]_vars
    /\ []<>(Locker = {})
    /\ \A l \in Loops : []<>(pc[l] \notin {"first", "tick"})
    /\ \A l \in Loops : []<>(~(l \in Alive /\ ctxDone[l]))

C19_Witness ==
    /\ last = "TickEnd" /\ Locker = {} /\ uiPc = "idle"
    /\ \E l \in Loops : pc[l] = "select" /\ ctxDone[l] /\ tickerC[l]
====
